---- MODULE Spec2Model ----
(***************************************************************************)
(* Model of unicode-default-word-boundary: the UAX #29 word boundary walk  *)
(* of src/src/findBoundaries.ts (findBoundaries), the packed property      *)
(* lookup it reads, and the span producers of src/test.ts (split,          *)
(* findSpans).                                                             *)
(*                                                                         *)
(* A text is a sequence of UTF-16 code units.  JavaScript positions are    *)
(* 0-based; the code unit at JavaScript index p is text[p + 1] here.       *)
(***************************************************************************)
EXTENDS Integers, Sequences, FiniteSets, TLC

VARIABLES
    text,                            \* the argument of findBoundaries / split / findSpans
    pc,                              \* where the generator stands
    rightPos, lookaheadPos,          \* findBoundaries.ts:91-92
    lookbehind, left, right, lookahead,  \* findBoundaries.ts:94-97
    nConsecutiveRegionalIndicators,  \* findBoundaries.ts:99
    yielded,                         \* the positions yielded so far, in order
    prev, spans,                     \* split(): test.ts:81-84; prev is <<>> while
                                     \* undefined, else <<boundary>>
    second,                          \* a second generator, findBoundaries(second.text),
                                     \* alive next to the first one
    build,                           \* compile-word-break.js: the ranges the generator
                                     \* script holds and how far it has come
    spanIndex, spanList              \* findSpans(): loop index and spans yielded

vars == <<text, pc, rightPos, lookaheadPos, lookbehind, left, right, lookahead,
          nConsecutiveRegionalIndicators, yielded, prev, spans, spanIndex, spanList,
          second, build>>

walk == <<rightPos, lookaheadPos, lookbehind, left, right, lookahead,
          nConsecutiveRegionalIndicators>>

\* A JavaScript variable that is declared and not yet assigned: a value that
\* is no position, no property and no count.
Undefined == -1

-----------------------------------------------------------------------------
(* Bounds of the model *)

\* longest text, in scalar values, over the full alphabet
MaxLen == 2
\* longest text, in scalar values, over the emoji alphabet
MaxEmojiLen == 4
\* longest text, in scalar values, over the flag alphabet
MaxFlagLen == 5
\* longest text, in code units, over the alphabet with surrogate halves
MaxUnits == 3
\* longest text, in scalar values, over the newline alphabet
MaxNewlineLen == 5
\* longest text, in scalar values, over the letter alphabet
MaxLetterLen == 5
\* longest text, in scalar values, over the Hebrew alphabet
MaxHebrewLen == 5
\* longest text, in scalar values, of two generators alive together
MaxPairLen == 3
\* longest text, in scalar values, over the number alphabet
MaxNumberLen == 4
\* longest text, in scalar values, over the alphabet of the last ranges
MaxHighLen == 2
\* most scalar values before an emoji ZWJ sequence
MaxPrefixLen == 1
\* most property ranges in a list given to makeDense or ensureDense
MaxRanges == 2

-----------------------------------------------------------------------------
(* The generated tables (gen/WordBreakProperty.ts) *)

\* The dense ranges the generator writes as WORD_BREAK_PROPERTY: <<start,
\* property>>, sorted by start, each range running to the next start, the
\* last one to U+10FFFF.  An excerpt of the Unicode data: the ranges around
\* the code points the model's texts use.
Ranges ==
    << <<0, "Other">>, <<10, "LF">>, <<11, "Newline">>, <<13, "CR">>,
       <<14, "Other">>, <<32, "WSegSpace">>, <<33, "Other">>,
       <<34, "Double_Quote">>, <<35, "Other">>, <<39, "Single_Quote">>,
       <<40, "Other">>, <<44, "MidNum">>, <<45, "Other">>,
       <<46, "MidNumLet">>, <<47, "Other">>, <<48, "Numeric">>,
       <<58, "MidLetter">>, <<59, "MidNum">>, <<60, "Other">>,
       <<65, "ALetter">>, <<91, "Other">>, <<95, "ExtendNumLet">>,
       <<96, "Other">>, <<97, "ALetter">>, <<123, "Other">>,
       <<173, "Format">>, <<174, "Other">>, <<768, "Extend">>,
       <<880, "Other">>, <<1488, "Hebrew_Letter">>, <<1515, "Other">>,
       <<8204, "Extend">>, <<8205, "ZWJ">>, <<8206, "Format">>,
       <<8208, "Other">>, <<12448, "Katakana">>, <<12539, "Other">>,
       <<127462, "Regional_Indicator">>, <<127488, "Other">>,
       <<127995, "Extend">>, <<128000, "Other">>,
       <<917505, "Format">>, <<917506, "Other">>, <<917536, "Extend">>,
       <<917632, "Other">>, <<917760, "Extend">>, <<918000, "Other">> >>

\* compile-word-break.js:57-64: the property names in the order in which the
\* ranges first use them, then sot and eot.
RECURSIVE CategoriesFrom(_, _)
CategoriesFrom(i, seen) ==
    IF i > Len(Ranges) THEN seen
    ELSE LET p == Ranges[i][2] IN
         IF \E k \in 1..Len(seen) : seen[k] = p
         THEN CategoriesFrom(i + 1, seen)
         ELSE CategoriesFrom(i + 1, Append(seen, p))

categories == CategoriesFrom(1, <<>>) \o <<"sot", "eot">>

\* compile-word-break.js:107-113: `export const enum WordBreakProperty`, the
\* names numbered from 0 in the order of categories.
WordBreakProperty(name) ==
    (CHOOSE k \in 1..Len(categories) : categories[k] = name) - 1

Other == WordBreakProperty("Other")
LF == WordBreakProperty("LF")
Newline == WordBreakProperty("Newline")
CR == WordBreakProperty("CR")
WSegSpace == WordBreakProperty("WSegSpace")
Double_Quote == WordBreakProperty("Double_Quote")
Single_Quote == WordBreakProperty("Single_Quote")
MidNum == WordBreakProperty("MidNum")
MidNumLet == WordBreakProperty("MidNumLet")
Numeric == WordBreakProperty("Numeric")
MidLetter == WordBreakProperty("MidLetter")
ALetter == WordBreakProperty("ALetter")
ExtendNumLet == WordBreakProperty("ExtendNumLet")
Format == WordBreakProperty("Format")
Extend == WordBreakProperty("Extend")
Hebrew_Letter == WordBreakProperty("Hebrew_Letter")
ZWJ == WordBreakProperty("ZWJ")
Katakana == WordBreakProperty("Katakana")
Regional_Indicator == WordBreakProperty("Regional_Indicator")
sot == WordBreakProperty("sot")
eot == WordBreakProperty("eot")

\* WORD_BREAK_PROPERTY: [start, WordBreakProperty] pairs (compile-word-break.js:126-133)
WORD_BREAK_PROPERTY ==
    [i \in 1..Len(Ranges) |-> <<Ranges[i][1], WordBreakProperty(Ranges[i][2])>>]

\* The code points the extendedPictographic pattern accepts: U+2642 MALE SIGN
\* and U+1F9DA FAIRY, an excerpt of emoji-data.txt.
extendedPictographic == {9794, 129498}

-----------------------------------------------------------------------------
(* UTF-16 *)

\* findBoundaries.ts:356-359
isStartOfSurrogatePair(codeUnit) == codeUnit >= 55296 /\ codeUnit <= 56319

\* a low (trailing) surrogate code unit, 0xDC00..0xDFFF
isLowSurrogate(codeUnit) == codeUnit >= 56320 /\ codeUnit <= 57343

\* String.fromCodePoint: the code units of one code point
fromCodePoint(cp) ==
    IF cp < 65536 THEN <<cp>>
    ELSE <<55296 + ((cp - 65536) \div 1024), 56320 + ((cp - 65536) % 1024)>>

\* String.prototype.codePointAt(0) of a non-empty string
codePointAt0(s) ==
    IF isStartOfSurrogatePair(s[1]) /\ Len(s) >= 2 /\ isLowSurrogate(s[2])
    THEN 65536 + (s[1] - 55296) * 1024 + (s[2] - 56320)
    ELSE s[1]

\* String.prototype.substring(from, to) for 0 <= from and 0 <= to, with
\* JavaScript indices: both are clamped to the length, and swapped when the
\* first is the greater
substring(s, from, to) ==
    LET a == IF from > Len(s) THEN Len(s) ELSE from
        b == IF to > Len(s) THEN Len(s) ELSE to
    IN IF a = b THEN <<>>
       ELSE IF a < b THEN SubSeq(s, a + 1, b)
       ELSE SubSeq(s, b + 1, a)

\* the code units of the string "undefined", what `text[pos] + text[pos + 1]`
\* appends when pos + 1 is past the end
undefinedString == <<117, 110, 100, 101, 102, 105, 110, 101, 100>>

\* Array.from(string): the string cut into code points, a high surrogate
\* taking the low surrogate that follows it
RECURSIVE arrayFrom(_)
arrayFrom(s) ==
    IF Len(s) = 0 THEN <<>>
    ELSE IF isStartOfSurrogatePair(s[1]) /\ Len(s) >= 2 /\ isLowSurrogate(s[2])
         THEN <<SubSeq(s, 1, 2)>> \o arrayFrom(SubSeq(s, 3, Len(s)))
         ELSE <<SubSeq(s, 1, 1)>> \o arrayFrom(SubSeq(s, 2, Len(s)))

-----------------------------------------------------------------------------
(* The packed lookup table *)

BITS_PER_WORD == 4
ENTRIES_PER_WORD == 8
NUMBER_OF_CODE_POINTS == 1114112

RECURSIVE Pow2From(_)
Pow2From(n) == IF n = 0 THEN 1 ELSE 2 * Pow2From(n - 1)
powersOf2 == [n \in 0..30 |-> Pow2From(n)]
Pow2(n) == powersOf2[n]

Min(a, b) == IF a < b THEN a ELSE b

\* JavaScript `v << k` for 0 <= v < 16 and k <= 28: the 32-bit result read
\* as a signed integer (a set bit 31 makes it negative).
ShiftLeft(v, k) ==
    IF k = 0 THEN v
    ELSE LET half == v * Pow2(k - 1)
         IN IF half >= Pow2(30) THEN 2 * ((half - Pow2(30)) - Pow2(30)) ELSE 2 * half

\* JavaScript `word >> k` (arithmetic shift of the signed 32-bit word)
ShiftRight(word, k) == word \div Pow2(k)

\* JavaScript `x & 0xf`
And0xf(x) == x % 16

\* the index in WORD_BREAK_PROPERTY of the range holding the code point
rangeOf(codePoint) ==
    CHOOSE i \in 1..Len(WORD_BREAK_PROPERTY) :
        /\ WORD_BREAK_PROPERTY[i][1] <= codePoint
        /\ (i = Len(WORD_BREAK_PROPERTY) \/ codePoint < WORD_BREAK_PROPERTY[i + 1][1])

\* findBoundaries.ts:475: the field createLookupTable ORs into currentWord for
\* one code point of a range with property wbProperty
packedField(wbProperty, entryIndex) ==
    ShiftLeft(Min(wbProperty, 15), BITS_PER_WORD * entryIndex)

\* findBoundaries.ts:461-502: the word createLookupTable leaves at wordIndex.
\* The loop runs over every code point below the start of the last range, in
\* order, so code point c lands in field c % 8 of word c \div 8; the fields
\* of one word are disjoint, which makes `|=` an addition.  The words of the
\* last range are never written past the flush of the word in progress and
\* stay 0.
RECURSIVE lutWordFrom(_, _)
lutWordFrom(wordIndex, entryIndex) ==
    IF entryIndex = ENTRIES_PER_WORD THEN 0
    ELSE LET codePoint == wordIndex * ENTRIES_PER_WORD + entryIndex
             lastStart == WORD_BREAK_PROPERTY[Len(WORD_BREAK_PROPERTY)][1]
             field == IF codePoint < lastStart
                      THEN packedField(WORD_BREAK_PROPERTY[rangeOf(codePoint)][2], entryIndex)
                      ELSE 0
         IN field + lutWordFrom(wordIndex, entryIndex + 1)

createLookupTable(wordIndex) == lutWordFrom(wordIndex, 0)

-----------------------------------------------------------------------------
(* The texts of the model *)

\* One scalar value of every Word_Break class, with two Extended_Pictographic
\* scalars (one in the BMP, one astral) and an astral Extend:
\*   a, ALEPH, 1, KATAKANA E, _, :, comma, full stop, ', ", CR, LF, VT, space,
\*   U+0300, SOFT HYPHEN, ZWJ, REGIONAL INDICATOR A, !, MALE SIGN, FAIRY
FullAlphabet ==
    {97, 1488, 49, 12456, 95, 58, 44, 46, 39, 34, 13, 10, 11, 32,
     768, 173, 8205, 127462, 33, 9794, 129498}

\* !, FAIRY, SKIN TONE MODIFIER (astral Extend), SOFT HYPHEN, ZWJ, a, LF
EmojiAlphabet == {33, 129498, 127997, 173, 8205, 97, 10}

\* REGIONAL INDICATOR A, a, space, LF, U+0300
FlagAlphabet == {127462, 97, 32, 10, 768}

\* CR, LF, a, U+0300
NewlineAlphabet == {13, 10, 97, 768}

\* a, ', :, U+0300
LetterAlphabet == {97, 39, 58, 768}

\* ALEPH, a, ', ", U+0300
HebrewAlphabet == {1488, 97, 39, 34, 768}

\* 1, a, comma, full stop, _, KATAKANA E, U+0300
NumberAlphabet == {49, 97, 44, 46, 95, 12456, 768}

\* a, U+E0100 (VARIATION SELECTOR-17, the first of the last Extend range),
\* U+E01EF (its last), U+E01F0 (the start of the last range), U+10FFFF
HighAlphabet == {97, 917760, 917999, 918000, 1114111}

\* code units for the texts that need not be well-formed UTF-16: the two
\* halves of REGIONAL INDICATOR A, a, SOFT HYPHEN, ZWJ
UnitAlphabet == {55356, 56806, 97, 173, 8205}

\* what comes before an emoji ZWJ sequence: a, 1, space, LF, FAIRY, !
PrefixAlphabet == {97, 49, 32, 10, 129498, 33}

\* Other, Extend or Format, ZWJ, Extended_Pictographic:
\*   ! or FAIRY, SKIN TONE MODIFIER or SOFT HYPHEN, ZWJ, FAIRY or MALE SIGN
ZwjSequences ==
    {<<o, e, 8205, x>> : o \in {33, 129498}, e \in {127997, 173}, x \in {129498, 9794}}

\* every code point a text of the model holds
ModelCodePoints ==
    FullAlphabet \cup EmojiAlphabet \cup FlagAlphabet \cup NewlineAlphabet
    \cup LetterAlphabet \cup HebrewAlphabet \cup NumberAlphabet \cup HighAlphabet

\* the sequences of at most n members of an alphabet
ScalarStrings(alphabet, n) == UNION {[1..k -> alphabet] : k \in 0..n}

\* the UTF-16 string of a sequence of scalar values
RECURSIVE encode(_)
encode(scalars) ==
    IF Len(scalars) = 0 THEN <<>>
    ELSE fromCodePoint(Head(scalars)) \o encode(Tail(scalars))

\* the texts given to findBoundaries, split and findSpans: nine families of
\* well-formed texts, and every sequence of code units over UnitAlphabet,
\* lone surrogate halves included
Texts ==
    {encode(s) : s \in ScalarStrings(FullAlphabet, MaxLen)}
    \cup {encode(s) : s \in ScalarStrings(EmojiAlphabet, MaxEmojiLen)}
    \cup {encode(s) : s \in ScalarStrings(FlagAlphabet, MaxFlagLen)}
    \cup {encode(s) : s \in ScalarStrings(NewlineAlphabet, MaxNewlineLen)}
    \cup {encode(s) : s \in ScalarStrings(LetterAlphabet, MaxLetterLen)}
    \cup {encode(s) : s \in ScalarStrings(HebrewAlphabet, MaxHebrewLen)}
    \cup {encode(s) : s \in ScalarStrings(NumberAlphabet, MaxNumberLen)}
    \cup {encode(s) : s \in ScalarStrings(HighAlphabet, MaxHighLen)}
    \cup {encode(s \o z) : s \in ScalarStrings(PrefixAlphabet, MaxPrefixLen),
                            z \in ZwjSequences}
    \cup ScalarStrings(UnitAlphabet, MaxUnits)

\* well-formed UTF-16: every high surrogate is followed by a low surrogate and
\* every low surrogate follows a high one
WellFormed(s) ==
    \A i \in 1..Len(s) :
        /\ isStartOfSurrogatePair(s[i]) => (i < Len(s) /\ isLowSurrogate(s[i + 1]))
        /\ isLowSurrogate(s[i]) => (i > 1 /\ isStartOfSurrogatePair(s[i - 1]))

-----------------------------------------------------------------------------
(* Property lookup *)

\* a table with words for the Basic Multilingual Plane only
lutLength_BmpOnly == 65536 \div ENTRIES_PER_WORD

\* findBoundaries.ts:462: the length of the Uint32Array,
\* Math.ceil(NUMBER_OF_CODE_POINTS / ENTRIES_PER_WORD)
lutLength == (NUMBER_OF_CODE_POINTS + ENTRIES_PER_WORD - 1) \div ENTRIES_PER_WORD

\* findBoundaries.ts:57: DENSE_LOOKUP = createLookupTable(), at the word
\* indices that the code points of the model's texts select
DENSE_LOOKUP ==
    [wordIndex \in {c \div ENTRIES_PER_WORD : c \in ModelCodePoints \cup 55296..57343}
                   \cap 0..(lutLength - 1)
        |-> createLookupTable(wordIndex)]

\* findBoundaries.ts:401: the word lookupProperty reads for a code point
wordIndexOf(codepoint) == ShiftRight(codepoint, 3)

\* findBoundaries.ts:383-405.  A read past the end of the Uint32Array gives
\* undefined, which `>>` turns into 0.
lookupProperty(codepoint) ==
    LET wordIndex == wordIndexOf(codepoint)
        i == codepoint % 8
        word == IF wordIndex < lutLength THEN DENSE_LOOKUP[wordIndex] ELSE 0
    IN And0xf(ShiftRight(word, i * BITS_PER_WORD))

\* findBoundaries.ts:366-378
property(character) ==
    IF character = <<10>> THEN LF
    ELSE IF character = <<13>> THEN CR
    ELSE IF character = <<34>> THEN Double_Quote
    ELSE IF character = <<39>> THEN Single_Quote
    ELSE IF character = <<8205>> THEN ZWJ
    ELSE lookupProperty(codePointAt0(character))

\* positionAfter without the surrogate test: one code unit forward, whatever
\* the code unit is
positionAfter_OneCodeUnit(s, pos) ==
    IF pos >= Len(s) THEN Len(s) ELSE pos + 1

\* positionAfter that forgets to step over a scalar of one code unit
positionAfter_NoAdvance(s, pos) ==
    IF pos >= Len(s) THEN Len(s)
    ELSE IF isStartOfSurrogatePair(s[pos + 1]) THEN pos + 2
    ELSE pos

\* findBoundaries.ts:318-325
positionAfter(s, pos) ==
    IF pos >= Len(s) THEN Len(s)
    ELSE IF isStartOfSurrogatePair(s[pos + 1]) THEN pos + 2
    ELSE pos + 1

\* findBoundaries.ts:330-340
wordbreakPropertyAt(s, pos) ==
    IF pos < 0 THEN sot
    ELSE IF pos >= Len(s) THEN eot
    ELSE IF isStartOfSurrogatePair(s[pos + 1])
         THEN property(<<s[pos + 1]>> \o
                       (IF pos + 1 < Len(s) THEN <<s[pos + 2]>> ELSE undefinedString))
    ELSE property(<<s[pos + 1]>>)

\* findBoundaries.ts:368: the assertion of property() for the character that
\* wordbreakPropertyAt(s, pos) hands it: one or two code units.  It has ten
\* when a high surrogate is the last code unit of the text.
propertyAssertion(s, pos) ==
    ~(pos >= 0 /\ pos < Len(s) /\ isStartOfSurrogatePair(s[pos + 1]) /\ pos + 1 >= Len(s))

\* findBoundaries.ts:342-344: the pattern is anchored at the start of the
\* substring and accepts one code point
isExtendedPictographicAt(s, pos) ==
    LET sub == substring(s, pos, pos + 2)
    IN Len(sub) > 0 /\ codePointAt0(sub) \in extendedPictographic

\* findBoundaries.ts:348-350
isAHLetter(prop) == prop = ALetter \/ prop = Hebrew_Letter

\* findBoundaries.ts:352-354
isMidNumLetQ(prop) == prop = MidNumLet \/ prop = Single_Quote

-----------------------------------------------------------------------------
(* The span producers: src/test.ts *)

\* the white space test of isNonSpace without WSegSpace
isWhiteSpaceProperty_NoWSegSpace(wb) == wb = CR \/ wb = LF \/ wb = Newline

\* test.ts:146-150: the four properties isNonSpace tests for
isWhiteSpaceProperty(wb) == wb = CR \/ wb = LF \/ wb = Newline \/ wb = WSegSpace

\* isNonSpace with `some` where the code has `every`: a chunk is dropped as
\* soon as it holds one white space scalar
isNonSpace_Some(chunk) ==
    LET props == [k \in 1..Len(arrayFrom(chunk)) |-> property(arrayFrom(chunk)[k])]
    IN ~(\E k \in 1..Len(props) : isWhiteSpaceProperty(props[k]))

\* test.ts:144-151
isNonSpace(chunk) ==
    LET props == [k \in 1..Len(arrayFrom(chunk)) |-> property(arrayFrom(chunk)[k])]
    IN ~(\A k \in 1..Len(props) : isWhiteSpaceProperty(props[k]))

\* test.ts:120-128: the constructor of LazySpan
LazySpan(source, start, end) == [source |-> source, start |-> start, end |-> end]

\* test.ts:130-132: get text()
spanText(span) == substring(span.source, span.start, span.end)

\* a length getter that counts the code unit at `end` as well
spanLength_Inclusive(span) == span.end - span.start + 1

\* test.ts:134-136: get length()
spanLength(span) == span.end - span.start

\* findSpans starting every span at the first boundary
nextSpan_FromFirst(boundaries, i) == LazySpan(text, boundaries[1], boundaries[i + 2])

\* test.ts:110-113: the span findSpans() yields at loop index i
nextSpan(boundaries, i) == LazySpan(text, boundaries[i + 1], boundaries[i + 2])

\* a split() that keeps the first boundary as the start of every span
splitPrev_KeepFirst(boundary) == IF prev = <<>> THEN <<boundary>> ELSE prev

\* test.ts:84-90: what split() does with the next boundary it pulls from the
\* generator: the first one only sets prev, every later one closes a span
splitPrev(boundary) == <<boundary>>
splitSpans(boundary) ==
    IF prev = <<>> THEN spans
    ELSE LET span == substring(text, prev[1], boundary)
         IN IF isNonSpace(span) THEN Append(spans, span) ELSE spans

\* `yield rightPos`: the position goes to the consumers
Yield(pos) ==
    /\ yielded' = Append(yielded, pos)
    /\ prev' = splitPrev(pos)
    /\ spans' = splitSpans(pos)

NoYield == UNCHANGED <<yielded, prev, spans>>

\* findBoundaries.ts:45-55: assert(test).  Under node a false test throws
\* (assert.strictEqual); in a browser console.assert reports it and the walk
\* goes on.  A step may take the first outcome only when the test is false.
assertFails(test) == ~test

\* an assertion has thrown: the generator is dead, and so are split() and
\* findSpans(), which let the exception through
Thrown ==
    /\ pc' = "thrown"
    /\ NoYield
    /\ UNCHANGED <<text, second, build, walk, spanIndex, spanList>>

-----------------------------------------------------------------------------
(* The walk: findBoundaries, src/src/findBoundaries.ts:66-309 *)

\* the WB4 loop conditions without ZWJ
isIgnored_NoZWJ(prop) == prop = Format \/ prop = Extend

\* findBoundaries.ts:177-181 and 198-202: the condition of the two WB4 loops
isIgnored(prop) == prop = Format \/ prop = Extend \/ prop = ZWJ

isNewline(prop) == prop = Newline \/ prop = CR \/ prop = LF

\* findBoundaries.ts:308: `while (rightPos < text.length)`, reached at the end
\* of the body and by every `continue`
loopCondition(pos) == IF pos < Len(text) THEN "loop" ELSE "done"

\* the early rules without WB1: no break at the start of the text
earlyRule_NoWB1(l, r) ==
    IF r = eot THEN "WB2"
    ELSE IF l = CR /\ r = LF THEN "WB3"
    ELSE IF isNewline(l) THEN "WB3b"
    ELSE IF isNewline(r) THEN "WB3a"
    ELSE "none"

\* findBoundaries.ts:113-144: the rule that ends the step right after the
\* shift, or "none"
earlyRule(l, r) ==
    IF l = sot THEN "WB1"
    ELSE IF r = eot THEN "WB2"
    ELSE IF l = CR /\ r = LF THEN "WB3"
    ELSE IF isNewline(l) THEN "WB3b"
    ELSE IF isNewline(r) THEN "WB3a"
    ELSE "none"

\* findBoundaries.ts:149-153: the lookahead pattern of the two-scalar advance
hackApplies(l, r, la) == l = Other /\ (r = Extend \/ r = Format) /\ la = ZWJ

\* findBoundaries.ts:167
WB3c(l, pos) == l = ZWJ /\ isExtendedPictographicAt(text, pos)

\* findBoundaries.ts:170
WB3d(l, r) == l = WSegSpace /\ r = WSegSpace

\* findBoundaries.ts:210-286: the first rule of WB5..WB13b that keeps left and
\* right together, or "none"
keepRule(lb, l, r, la) ==
    IF isAHLetter(l) /\ isAHLetter(r) THEN "WB5"
    ELSE IF isAHLetter(l) /\ isAHLetter(la) /\ (r = MidLetter \/ isMidNumLetQ(r)) THEN "WB6"
    ELSE IF isAHLetter(lb) /\ isAHLetter(r) /\ (l = MidLetter \/ isMidNumLetQ(l)) THEN "WB7"
    ELSE IF l = Hebrew_Letter /\ r = Single_Quote THEN "WB7a"
    ELSE IF l = Hebrew_Letter /\ r = Double_Quote /\ la = Hebrew_Letter THEN "WB7b"
    ELSE IF lb = Hebrew_Letter /\ l = Double_Quote /\ r = Hebrew_Letter THEN "WB7c"
    ELSE IF l = Numeric /\ r = Numeric THEN "WB8"
    ELSE IF isAHLetter(l) /\ r = Numeric THEN "WB9"
    ELSE IF l = Numeric /\ isAHLetter(r) THEN "WB10"
    ELSE IF lb = Numeric /\ r = Numeric /\ (l = MidNum \/ isMidNumLetQ(l)) THEN "WB11"
    ELSE IF l = Numeric /\ la = Numeric /\ (r = MidNum \/ isMidNumLetQ(r)) THEN "WB12"
    ELSE IF l = Katakana /\ r = Katakana THEN "WB13"
    ELSE IF (isAHLetter(l) \/ l = Numeric \/ l = Katakana \/ l = ExtendNumLet)
            /\ r = ExtendNumLet THEN "WB13a"
    ELSE IF (isAHLetter(r) \/ r = Numeric \/ r = Katakana) /\ l = ExtendNumLet THEN "WB13b"
    ELSE "none"

\* no second generator has been made
noSecond == [state |-> "none"]

\* the generator script is not running
noBuild == [stage |-> "none"]

Init ==
    /\ text \in Texts
    /\ pc = "start"
    /\ rightPos = Undefined
    /\ lookaheadPos = Undefined
    /\ lookbehind = Undefined
    /\ left = Undefined
    /\ right = Undefined
    /\ lookahead = Undefined
    /\ nConsecutiveRegionalIndicators = Undefined
    /\ yielded = <<>>
    /\ prev = <<>>
    /\ spans = <<>>
    /\ spanIndex = 0
    /\ spanList = <<>>
    /\ second = noSecond
    /\ build = noBuild

\* a start of the walk without the early return on the empty string
Begin_NoEmptyCheck ==
    /\ pc = "start"
    /\ \/ /\ pc' = "loop"
          /\ lookaheadPos' = 0
          /\ left' = sot
          /\ right' = sot
          /\ lookahead' = wordbreakPropertyAt(text, 0)
          /\ nConsecutiveRegionalIndicators' = 0
          /\ UNCHANGED <<rightPos, lookbehind>>
          /\ NoYield
          /\ UNCHANGED <<text, second, build, spanIndex, spanList>>
       \/ /\ assertFails(propertyAssertion(text, 0))
          /\ Thrown

\* findBoundaries.ts:66-99: the early return on the empty string, else the
\* initial window
Begin ==
    /\ pc = "start"
    /\ IF Len(text) = 0
       THEN /\ pc' = "done"
            /\ UNCHANGED walk
            /\ NoYield
            /\ UNCHANGED <<text, second, build, spanIndex, spanList>>
       ELSE \/ /\ pc' = "loop"
               /\ lookaheadPos' = 0
               /\ left' = sot
               /\ right' = sot
               /\ lookahead' = wordbreakPropertyAt(text, 0)
               /\ nConsecutiveRegionalIndicators' = 0
               /\ UNCHANGED <<rightPos, lookbehind>>
               /\ NoYield
               /\ UNCHANGED <<text, second, build, spanIndex, spanList>>
            \/ /\ assertFails(propertyAssertion(text, 0))
               /\ Thrown

\* findBoundaries.ts:101-144: the window shift, then WB1, WB2, WB3, WB3b, WB3a
\* (the rules read the shifted window: left is the old right, right the old
\* lookahead)
Shift ==
    /\ pc = "loop"
    /\ LET newRightPos == lookaheadPos
           nextPos == positionAfter(text, lookaheadPos)
           rule == earlyRule(right, lookahead)
       IN \/ /\ rightPos' = newRightPos
             /\ lookaheadPos' = nextPos
             /\ lookbehind' = left
             /\ left' = right
             /\ right' = lookahead
             /\ lookahead' = wordbreakPropertyAt(text, nextPos)
             /\ CASE rule = "WB1" -> Yield(rightPos') /\ pc' = loopCondition(rightPos')
                  [] rule = "WB2" -> Yield(rightPos') /\ pc' = "done"
                  [] rule = "WB3" -> NoYield /\ pc' = loopCondition(rightPos')
                  [] rule = "WB3b" -> Yield(rightPos') /\ pc' = loopCondition(rightPos')
                  [] rule = "WB3a" -> Yield(rightPos') /\ pc' = loopCondition(rightPos')
                  [] OTHER -> NoYield /\ pc' = "emoji"
             /\ UNCHANGED <<text, second, build, nConsecutiveRegionalIndicators, spanIndex, spanList>>
          \/ /\ \/ assertFails(propertyAssertion(text, nextPos))
                \/ rule = "WB2" /\ assertFails(newRightPos = Len(text))
             /\ Thrown

\* findBoundaries.ts:146-170: the two-scalar advance, then WB3c and WB3d
Emoji ==
    /\ pc = "emoji"
    /\ LET hackRight == positionAfter(text, lookaheadPos)
           hackLookahead == positionAfter(text, hackRight)
       IN \/ /\ IF hackApplies(left, right, lookahead)
                THEN /\ rightPos' = hackRight
                     /\ lookaheadPos' = hackLookahead
                     /\ left' = lookahead
                     /\ right' = wordbreakPropertyAt(text, hackRight)
                     /\ lookahead' = wordbreakPropertyAt(text, hackLookahead)
                ELSE UNCHANGED <<rightPos, lookaheadPos, left, right, lookahead>>
             /\ pc' = IF WB3c(left', rightPos') \/ WB3d(left', right')
                      THEN loopCondition(rightPos')
                      ELSE "sweepRight"
             /\ NoYield
             /\ UNCHANGED <<text, second, build, lookbehind, nConsecutiveRegionalIndicators,
                            spanIndex, spanList>>
          \/ /\ hackApplies(left, right, lookahead)
             /\ \/ assertFails(propertyAssertion(text, hackRight))
                \/ assertFails(propertyAssertion(text, hackLookahead))
             /\ Thrown

\* a WB4 loop over right that shifts left as well
SweepRight_ShiftsLeft ==
    /\ pc = "sweepRight"
    /\ isIgnored(right)
    /\ LET nextPos == positionAfter(text, lookaheadPos)
       IN \/ /\ rightPos' = lookaheadPos
             /\ lookaheadPos' = nextPos
             /\ left' = right
             /\ right' = lookahead
             /\ lookahead' = wordbreakPropertyAt(text, nextPos)
             /\ NoYield
             /\ UNCHANGED <<text, second, build, pc, lookbehind, nConsecutiveRegionalIndicators,
                            spanIndex, spanList>>
          \/ /\ assertFails(propertyAssertion(text, nextPos))
             /\ Thrown

\* findBoundaries.ts:177-187: one turn of the WB4 loop over right
SweepRight ==
    /\ pc = "sweepRight"
    /\ isIgnored(right)
    /\ LET nextPos == positionAfter(text, lookaheadPos)
       IN \/ /\ rightPos' = lookaheadPos
             /\ lookaheadPos' = nextPos
             /\ right' = lookahead
             /\ lookahead' = wordbreakPropertyAt(text, nextPos)
             /\ NoYield
             /\ UNCHANGED <<text, second, build, pc, lookbehind, left, nConsecutiveRegionalIndicators,
                            spanIndex, spanList>>
          \/ /\ assertFails(propertyAssertion(text, nextPos))
             /\ Thrown

\* findBoundaries.ts:177-195: the WB4 loop over right ends; the text may have
\* ended with it
SweepRightDone ==
    /\ pc = "sweepRight"
    /\ ~isIgnored(right)
    /\ \/ /\ IF right = eot
             THEN Yield(rightPos) /\ pc' = "done"
             ELSE NoYield /\ pc' = "sweepLookahead"
          /\ UNCHANGED <<text, second, build, walk, spanIndex, spanList>>
       \/ /\ right = eot
          /\ assertFails(rightPos = Len(text))
          /\ Thrown

\* a WB4 loop over lookahead that moves right along with lookahead
SweepLookahead_MovesRight ==
    /\ pc = "sweepLookahead"
    /\ isIgnored(lookahead)
    /\ LET nextPos == positionAfter(text, lookaheadPos)
       IN \/ /\ rightPos' = lookaheadPos
             /\ right' = lookahead
             /\ lookaheadPos' = nextPos
             /\ lookahead' = wordbreakPropertyAt(text, nextPos)
             /\ NoYield
             /\ UNCHANGED <<text, second, build, pc, lookbehind, left,
                            nConsecutiveRegionalIndicators, spanIndex, spanList>>
          \/ /\ assertFails(propertyAssertion(text, nextPos))
             /\ Thrown

\* findBoundaries.ts:198-208: one turn of the WB4 loop over lookahead
SweepLookahead ==
    /\ pc = "sweepLookahead"
    /\ isIgnored(lookahead)
    /\ LET nextPos == positionAfter(text, lookaheadPos)
       IN \/ /\ lookaheadPos' = nextPos
             /\ lookahead' = wordbreakPropertyAt(text, nextPos)
             /\ NoYield
             /\ UNCHANGED <<text, second, build, pc, rightPos, lookbehind, left, right,
                            nConsecutiveRegionalIndicators, spanIndex, spanList>>
          \/ /\ assertFails(propertyAssertion(text, nextPos))
             /\ Thrown

\* findBoundaries.ts:210-308: WB5..WB13b, WB15 and WB16, WB999
Rules ==
    /\ pc = "sweepLookahead"
    /\ ~isIgnored(lookahead)
    /\ IF keepRule(lookbehind, left, right, lookahead) # "none"
       THEN /\ NoYield
            /\ UNCHANGED nConsecutiveRegionalIndicators
       ELSE IF right = Regional_Indicator
       THEN /\ nConsecutiveRegionalIndicators' = nConsecutiveRegionalIndicators + 1
            /\ IF nConsecutiveRegionalIndicators' % 2 = 1
               THEN NoYield
               ELSE Yield(rightPos)
       ELSE /\ nConsecutiveRegionalIndicators' = 0
            /\ Yield(rightPos)
    /\ pc' = loopCondition(rightPos)
    /\ UNCHANGED <<text, second, build, rightPos, lookaheadPos, lookbehind, left, right, lookahead,
                   spanIndex, spanList>>

\* test.ts:98-115: findSpans() yields its next span from the boundaries it
\* collected with Array.from(findBoundaries(text))
FindSpansNext ==
    /\ pc = "done"
    /\ spanIndex < Len(yielded) - 1
    /\ spanList' = Append(spanList, nextSpan(yielded, spanIndex))
    /\ spanIndex' = spanIndex + 1
    /\ NoYield
    /\ UNCHANGED <<text, second, build, pc, walk>>

Next ==
    \/ Begin
    \/ Shift
    \/ Emoji
    \/ SweepRight
    \/ SweepRightDone
    \/ SweepLookahead
    \/ Rules
    \/ FindSpansNext

Spec == Init /\ [][Next]_vars

-----------------------------------------------------------------------------
(* What the claims speak about *)

\* the scalar values of a well-formed text, as code points, in order
scalarsOf(s) ==
    LET chars == arrayFrom(s)
    IN [k \in 1..Len(chars) |-> codePointAt0(chars[k])]

\* the JavaScript index at which the k-th scalar value of the text starts
RECURSIVE startsFrom(_, _)
startsFrom(chars, from) ==
    IF Len(chars) = 0 THEN <<from>>
    ELSE <<from>> \o startsFrom(Tail(chars), from + Len(Head(chars)))
startOf(s, k) == startsFrom(arrayFrom(s), 0)[k]

\* the Word_Break class the Unicode data gives a code point, by name
rangeClass(codePoint) ==
    Ranges[CHOOSE i \in 1..Len(Ranges) :
               /\ Ranges[i][1] <= codePoint
               /\ (i = Len(Ranges) \/ codePoint < Ranges[i + 1][1])][2]
modelClasses == [c \in ModelCodePoints |-> rangeClass(c)]
classOf(codePoint) ==
    IF codePoint \in ModelCodePoints THEN modelClasses[codePoint] ELSE rangeClass(codePoint)

\* the set of positions yielded so far
yieldedSet == {yielded[k] : k \in 1..Len(yielded)}

\* the spans that findSpans() makes of the yielded positions
spansOfYielded ==
    [k \in 1..(IF Len(yielded) = 0 THEN 0 ELSE Len(yielded) - 1)
        |-> LazySpan(text, yielded[k], yielded[k + 1])]

\* the generator has returned
walkDone == pc = "done"

\* findSpans() has yielded its last span
spansDone == walkDone /\ spanIndex >= Len(yielded) - 1

-----------------------------------------------------------------------------
(* UAX #29 section 4.1, applied to the classes of the Unicode data *)

uaxIgnored(c) == c \in {"Extend", "Format", "ZWJ"}
uaxNewline(c) == c \in {"CR", "LF", "Newline"}
uaxAHLetter(c) == c \in {"ALetter", "Hebrew_Letter"}
uaxMidNumLetQ(c) == c \in {"MidNumLet", "Single_Quote"}

\* the class of the i-th scalar of cps; "sot" before the first, "eot" after
\* the last
uaxClass(cps, i) ==
    IF i < 1 THEN "sot" ELSE IF i > Len(cps) THEN "eot" ELSE classOf(cps[i])

\* WB4: the i-th scalar is swallowed by the scalar before it
uaxAbsorbed(cps, i) ==
    i > 1 /\ i <= Len(cps) /\ uaxIgnored(classOf(cps[i])) /\ ~uaxNewline(classOf(cps[i - 1]))

\* the nearest scalar before i that WB4 leaves standing, 0 when there is none
uaxPrevBase(cps, i) ==
    IF \E j \in 1..(i - 1) : ~uaxAbsorbed(cps, j)
    THEN CHOOSE j \in 1..(i - 1) :
            ~uaxAbsorbed(cps, j) /\ \A k \in (j + 1)..(i - 1) : uaxAbsorbed(cps, k)
    ELSE 0

\* the nearest scalar after i that WB4 leaves standing, Len(cps) + 1 when
\* there is none
uaxNextBase(cps, i) ==
    IF \E j \in (i + 1)..Len(cps) : ~uaxAbsorbed(cps, j)
    THEN CHOOSE j \in (i + 1)..Len(cps) :
            ~uaxAbsorbed(cps, j) /\ \A k \in (i + 1)..(j - 1) : uaxAbsorbed(cps, k)
    ELSE Len(cps) + 1

\* the number of Regional_Indicator scalars standing in a row up to and
\* including the i-th, ignored scalars between them skipped
RECURSIVE uaxRegionalRun(_, _)
uaxRegionalRun(cps, i) ==
    IF i < 1 \/ uaxClass(cps, i) # "Regional_Indicator" THEN 0
    ELSE 1 + uaxRegionalRun(cps, uaxPrevBase(cps, i))

\* WB5..WB13b and WB15/WB16 keep l and r together
uaxKeeps(cps, l, r) ==
    LET lb == uaxClass(cps, uaxPrevBase(cps, l))
        cl == uaxClass(cps, l)
        cr == uaxClass(cps, r)
        la == uaxClass(cps, uaxNextBase(cps, r))
    IN \/ uaxAHLetter(cl) /\ uaxAHLetter(cr)
       \/ uaxAHLetter(cl) /\ (cr = "MidLetter" \/ uaxMidNumLetQ(cr)) /\ uaxAHLetter(la)
       \/ uaxAHLetter(lb) /\ (cl = "MidLetter" \/ uaxMidNumLetQ(cl)) /\ uaxAHLetter(cr)
       \/ cl = "Hebrew_Letter" /\ cr = "Single_Quote"
       \/ cl = "Hebrew_Letter" /\ cr = "Double_Quote" /\ la = "Hebrew_Letter"
       \/ lb = "Hebrew_Letter" /\ cl = "Double_Quote" /\ cr = "Hebrew_Letter"
       \/ cl = "Numeric" /\ cr = "Numeric"
       \/ uaxAHLetter(cl) /\ cr = "Numeric"
       \/ cl = "Numeric" /\ uaxAHLetter(cr)
       \/ lb = "Numeric" /\ (cl = "MidNum" \/ uaxMidNumLetQ(cl)) /\ cr = "Numeric"
       \/ cl = "Numeric" /\ (cr = "MidNum" \/ uaxMidNumLetQ(cr)) /\ la = "Numeric"
       \/ cl = "Katakana" /\ cr = "Katakana"
       \/ cl \in {"ALetter", "Hebrew_Letter", "Numeric", "Katakana", "ExtendNumLet"}
          /\ cr = "ExtendNumLet"
       \/ cl = "ExtendNumLet" /\ cr \in {"ALetter", "Hebrew_Letter", "Numeric", "Katakana"}
       \/ cl = "Regional_Indicator" /\ cr = "Regional_Indicator"
          /\ uaxRegionalRun(cps, l) % 2 = 1

\* the rules in priority order: is there a break between the scalars i - 1
\* and i, for 2 <= i <= Len(cps)
uaxBreakBefore(cps, i) ==
    LET a == classOf(cps[i - 1])
        b == classOf(cps[i])
    IN IF a = "CR" /\ b = "LF" THEN FALSE                              \* WB3
       ELSE IF uaxNewline(a) THEN TRUE                                 \* WB3a
       ELSE IF uaxNewline(b) THEN TRUE                                 \* WB3b
       ELSE IF a = "ZWJ" /\ cps[i] \in extendedPictographic THEN FALSE \* WB3c
       ELSE IF a = "WSegSpace" /\ b = "WSegSpace" THEN FALSE           \* WB3d
       ELSE IF uaxIgnored(b) THEN FALSE                                \* WB4
       ELSE ~uaxKeeps(cps, uaxPrevBase(cps, i), i)                     \* WB5..WB999

\* the break positions of a well-formed text, in code units
uaxBoundaries(s) ==
    LET cps == scalarsOf(s)
    IN IF Len(s) = 0 THEN {}
       ELSE {0, Len(s)} \cup {startOf(s, i) : i \in {j \in 2..Len(cps) : uaxBreakBefore(cps, j)}}

\* C1: once the walk of a well-formed text has ended, the positions yielded by
\* findBoundaries are exactly the break positions of the UAX #29 rules
\* WB1..WB999 applied in priority order.
C1_MatchesUax29 ==
    (walkDone /\ WellFormed(text)) => yieldedSet = uaxBoundaries(text)

-----------------------------------------------------------------------------
(* The claims *)

\* C2: for a non-empty well-formed text, once the walk has ended the first
\* position yielded is 0 and the last is text.length; and once findSpans has
\* ended its first span starts at 0 and its last span ends at text.length.
C2_FirstAndLast ==
    (walkDone /\ WellFormed(text) /\ Len(text) > 0) =>
        /\ Len(yielded) >= 1
        /\ yielded[1] = 0
        /\ yielded[Len(yielded)] = Len(text)
        /\ spansDone =>
            /\ Len(spanList) >= 1
            /\ spanList[1].start = 0
            /\ spanList[Len(spanList)].end = Len(text)

\* a finished walk and a finished findSpans over a text with an astral scalar
\* and more than one span
C2_Witness ==
    /\ spansDone
    /\ Len(spanList) >= 2
    /\ \E k \in 1..Len(text) : isStartOfSurrogatePair(text[k])

\* C3: the positions yielded are strictly increasing: every yielded position
\* is greater than the one yielded before it.
C3_StrictlyIncreasing ==
    \A k \in 1..(Len(yielded) - 1) : yielded[k] < yielded[k + 1]

\* a finished walk that has yielded at least three positions, two of them in
\* a row around a letter and the U+0300 that the WB4 sweep attached to it
C3_Witness ==
    /\ walkDone
    /\ Len(yielded) >= 3
    /\ \E k \in 1..(Len(yielded) - 1) :
        /\ yielded[k + 1] - yielded[k] >= 2
        /\ text[yielded[k] + 1] = 97
        /\ text[yielded[k] + 2] = 768

\* the texts of a sequence of spans, joined in order
RECURSIVE concatTexts(_)
concatTexts(list) ==
    IF Len(list) = 0 THEN <<>> ELSE spanText(Head(list)) \o concatTexts(Tail(list))

\* C4: the spans of findSpans tile a non-empty text: there is one span less
\* than there are boundaries, the first span starts at 0, every span ends where
\* the next one starts, the last span ends at text.length, and the span texts
\* joined in order are the text.
C4_SpansTile ==
    (spansDone /\ WellFormed(text) /\ Len(text) > 0) =>
        /\ Len(spanList) = Len(yielded) - 1
        /\ spanList[1].start = 0
        /\ \A k \in 1..(Len(spanList) - 1) : spanList[k].end = spanList[k + 1].start
        /\ spanList[Len(spanList)].end = Len(text)
        /\ concatTexts(spanList) = text

\* findSpans has ended on a text of at least three spans
C4_Witness == spansDone /\ Len(spanList) >= 3

\* C5: every span yielded by findSpans for a well-formed text has start < end,
\* length = end - start, length > 0, and a text of exactly that length.
C5_SpanInvariants ==
    WellFormed(text) =>
        \A k \in 1..Len(spanList) :
            LET span == spanList[k] IN
            /\ span.start < span.end
            /\ spanLength(span) = span.end - span.start
            /\ spanLength(span) > 0
            /\ Len(spanText(span)) = spanLength(span)

\* findSpans has yielded a span of more than one code unit and a span of one
C5_Witness ==
    /\ \E k \in 1..Len(spanList) : spanLength(spanList[k]) >= 2
    /\ \E k \in 1..Len(spanList) : spanLength(spanList[k]) = 1

\* the JavaScript index p lies between the two halves of a surrogate pair
midSurrogate(s, p) ==
    /\ p >= 1
    /\ p < Len(s)
    /\ isStartOfSurrogatePair(s[p])
    /\ isLowSurrogate(s[p + 1])

\* C6: for a well-formed text no yielded position is the index of the low half
\* of a surrogate pair, and every span's text is made of whole scalar values.
C6_ScalarBoundaries ==
    WellFormed(text) =>
        /\ \A k \in 1..Len(yielded) :
            /\ yielded[k] \in 0..Len(text)
            /\ ~midSurrogate(text, yielded[k])
        /\ \A k \in 1..Len(spanList) : WellFormed(spanText(spanList[k]))

\* a finished walk over a text with two astral scalars that has yielded a
\* position between them
C6_Witness ==
    /\ spansDone
    /\ \E k \in 1..Len(yielded) :
        /\ yielded[k] >= 2
        /\ yielded[k] + 2 <= Len(text)
        /\ isStartOfSurrogatePair(text[yielded[k] - 1])
        /\ isStartOfSurrogatePair(text[yielded[k] + 1])

\* the text holds a scalar whose class in the Unicode data is in the set
holdsClass(s, classes) ==
    LET cps == scalarsOf(s)
    IN \E k \in 1..Len(cps) : classOf(cps[k]) \in classes

\* the text holds a scalar whose class in the Unicode data is outside the set
holdsOtherThan(s, classes) ==
    LET cps == scalarsOf(s)
    IN \E k \in 1..Len(cps) : classOf(cps[k]) \notin classes

whiteSpaceClasses == {"CR", "LF", "Newline", "WSegSpace"}
wordClasses == {"ALetter", "Hebrew_Letter", "Numeric", "Katakana"}

\* the texts of the spans between the yielded positions, in order
spanTexts == [k \in 1..Len(spansOfYielded) |-> spanText(spansOfYielded[k])]

notAllWhiteSpace(s) == holdsOtherThan(s, whiteSpaceClasses)
hasWordClass(s) == holdsClass(s, wordClasses)
hasNoWordClass(s) == ~holdsClass(s, wordClasses)
keptWithoutWordClass(s) == ~holdsClass(s, wordClasses) /\ notAllWhiteSpace(s)

\* C7: once the walk has ended, the array split() returns holds, in text
\* order, exactly the texts of the spans with at least one scalar whose class
\* is not CR, LF, Newline or WSegSpace.
C7_SplitDropsWhiteSpaceOnly ==
    (walkDone /\ WellFormed(text)) => spans = SelectSeq(spanTexts, notAllWhiteSpace)

\* split() has ended having dropped a white space span and kept a span without
\* a letter or digit
C7_Witness ==
    /\ walkDone
    /\ Len(spans) < Len(spanTexts)
    /\ \E k \in 1..Len(spans) : hasNoWordClass(spans[k])

\* C8 as claimed: every text split() returns holds at least one ALetter,
\* Hebrew_Letter, Numeric or Katakana scalar.
C8_OnlyWordSpans ==
    (walkDone /\ WellFormed(text)) => \A k \in 1..Len(spans) : hasWordClass(spans[k])

\* C8 as amended: split() keeps every span that holds an ALetter,
\* Hebrew_Letter, Numeric or Katakana scalar, and a span that holds none of
\* the four is missing from the result exactly when all its scalars are CR,
\* LF, Newline or WSegSpace.
C8_WordSpansKept ==
    (walkDone /\ WellFormed(text)) =>
        /\ SelectSeq(spans, hasWordClass) = SelectSeq(spanTexts, hasWordClass)
        /\ SelectSeq(spans, hasNoWordClass) = SelectSeq(spanTexts, keptWithoutWordClass)

\* split() has ended on a text with a word span, a punctuation span that it
\* kept and a white space span that it dropped
C8_Witness ==
    /\ walkDone
    /\ \E k \in 1..Len(spans) : hasWordClass(spans[k])
    /\ \E k \in 1..Len(spans) : hasNoWordClass(spans[k])
    /\ \E k \in 1..Len(spanTexts) : ~notAllWhiteSpace(spanTexts[k])

\* the scalar before JavaScript index p is a ZWJ and the scalar at p is
\* Extended_Pictographic
zwjBeforePictographic(s, p) ==
    /\ p >= 1
    /\ p < Len(s)
    /\ s[p] = 8205
    /\ codePointAt0(substring(s, p, p + 2)) \in extendedPictographic

\* C9 (WB3c): no yielded position is that of an Extended_Pictographic scalar
\* that a ZWJ immediately precedes.
C9_NoBreakAfterZwj ==
    WellFormed(text) =>
        \A k \in 1..Len(yielded) : ~zwjBeforePictographic(text, yielded[k])

\* C10 (WB15/WB16): once the walk has ended, the position of a
\* Regional_Indicator scalar that has k >= 1 Regional_Indicators of its run
\* before it (ignored scalars between them skipped) was yielded if and only if
\* k is even.
C10_FlagPairs ==
    (walkDone /\ WellFormed(text)) =>
        LET cps == scalarsOf(text) IN
        \A i \in 2..Len(cps) :
            LET k == uaxRegionalRun(cps, uaxPrevBase(cps, i)) IN
            (classOf(cps[i]) = "Regional_Indicator" /\ k >= 1) =>
                ((startOf(text, i) \in yieldedSet) <=> (k % 2 = 0))

\* the number of scalar values of a well-formed text
scalarCount(s) == Len(arrayFrom(s))

\* the class in the Unicode data of the k-th scalar value of the text
classAt(s, k) == classOf(scalarsOf(s)[k])

\* the k-th scalar of the text is a CR and the next one is a LF
crlfAt(s, k) ==
    /\ k >= 1
    /\ k < scalarCount(s)
    /\ classAt(s, k) = "CR"
    /\ classAt(s, k + 1) = "LF"

\* C11 (WB3a): once the walk of a well-formed text has ended, every position
\* right after a CR, LF or Newline scalar (text.length included) was yielded,
\* unless the scalar is a CR and a LF follows it; whatever the class of the
\* scalar at the position.
C11_BreakAfterNewline ==
    (walkDone /\ WellFormed(text)) =>
        \A i \in 2..(scalarCount(text) + 1) :
            (uaxNewline(classAt(text, i - 1)) /\ ~crlfAt(text, i - 1))
                => startOf(text, i) \in yieldedSet

\* C12 (WB3, WB3b): once the walk of a well-formed text has ended, the
\* position p > 0 of every CR, LF or Newline scalar was yielded, unless the
\* scalar is a LF and the scalar right before it is a CR, and then p was not
\* yielded.
C12_BreakBeforeNewline ==
    (walkDone /\ WellFormed(text)) =>
        \A i \in 2..scalarCount(text) :
            uaxNewline(classAt(text, i))
                => ((startOf(text, i) \in yieldedSet) <=> ~crlfAt(text, i - 1))

\* the scalar values of the text that are Extend, Format or ZWJ, as indices
ignoredScalars(s) ==
    LET cps == scalarsOf(s)
    IN {i \in 1..Len(cps) : uaxIgnored(classOf(cps[i]))}

\* C13 (WB4): in a well-formed text, no yielded position is that of an
\* Extend, Format or ZWJ scalar, unless the scalar is the first of the text or
\* the scalar right before it is a CR, LF or Newline.
C13_NoBreakBeforeIgnored ==
    WellFormed(text) =>
        \A i \in ignoredScalars(text) :
            startOf(text, i) \in yieldedSet
                => (i = 1 \/ uaxNewline(classAt(text, i - 1)))

\* a finished walk that has skipped an ignored scalar after a letter and has
\* yielded the position of an ignored scalar after a newline
C13_Witness ==
    /\ walkDone
    /\ WellFormed(text)
    /\ \E i \in ignoredScalars(text) :
        /\ i > 1
        /\ classAt(text, i - 1) = "ALetter"
        /\ startOf(text, i) \notin yieldedSet
    /\ \E i \in ignoredScalars(text) :
        /\ i > 1
        /\ uaxNewline(classAt(text, i - 1))
        /\ startOf(text, i) \in yieldedSet

\* the classes of the scalar values of a well-formed text, in order
classesOf(s) ==
    LET cps == scalarsOf(s)
    IN [k \in 1..Len(cps) |-> classOf(cps[k])]

\* the k-th class of a sequence of classes, sot before it and eot after it
classIn(cls, k) == IF k < 1 THEN "sot" ELSE IF k > Len(cls) THEN "eot" ELSE cls[k]

\* the nearest scalar before the i-th that is not Extend, Format or ZWJ, 0
\* when there is none
RECURSIVE nearestBefore(_, _)
nearestBefore(cls, i) ==
    IF i <= 1 THEN 0
    ELSE IF uaxIgnored(cls[i - 1]) THEN nearestBefore(cls, i - 1) ELSE i - 1

\* the nearest scalar after the i-th that is not Extend, Format or ZWJ,
\* Len(cls) + 1 when there is none
RECURSIVE nearestAfter(_, _)
nearestAfter(cls, i) ==
    IF i >= Len(cls) THEN Len(cls) + 1
    ELSE IF uaxIgnored(cls[i + 1]) THEN nearestAfter(cls, i + 1) ELSE i + 1

\* the scalars X (the i-th) and Y (the j-th) match one of WB5..WB13b, the
\* lookbehind and lookahead being the nearest scalars that are not ignored
keepPair(cls, i, j) ==
    LET lb == classIn(cls, nearestBefore(cls, i))
        cl == cls[i]
        cr == cls[j]
        la == classIn(cls, nearestAfter(cls, j))
    IN \/ uaxAHLetter(cl) /\ uaxAHLetter(cr)                                        \* WB5
       \/ uaxAHLetter(cl) /\ (cr = "MidLetter" \/ uaxMidNumLetQ(cr)) /\ uaxAHLetter(la)  \* WB6
       \/ uaxAHLetter(lb) /\ (cl = "MidLetter" \/ uaxMidNumLetQ(cl)) /\ uaxAHLetter(cr)  \* WB7
       \/ cl = "Hebrew_Letter" /\ cr = "Single_Quote"                               \* WB7a
       \/ cl = "Hebrew_Letter" /\ cr = "Double_Quote" /\ la = "Hebrew_Letter"       \* WB7b
       \/ lb = "Hebrew_Letter" /\ cl = "Double_Quote" /\ cr = "Hebrew_Letter"       \* WB7c
       \/ cl = "Numeric" /\ cr = "Numeric"                                          \* WB8
       \/ uaxAHLetter(cl) /\ cr = "Numeric"                                         \* WB9
       \/ cl = "Numeric" /\ uaxAHLetter(cr)                                         \* WB10
       \/ lb = "Numeric" /\ (cl = "MidNum" \/ uaxMidNumLetQ(cl)) /\ cr = "Numeric"  \* WB11
       \/ cl = "Numeric" /\ (cr = "MidNum" \/ uaxMidNumLetQ(cr)) /\ la = "Numeric"  \* WB12
       \/ cl = "Katakana" /\ cr = "Katakana"                                        \* WB13
       \/ cl \in {"ALetter", "Hebrew_Letter", "Numeric", "Katakana", "ExtendNumLet"}
          /\ cr = "ExtendNumLet"                                                    \* WB13a
       \/ cl = "ExtendNumLet"
          /\ cr \in {"ALetter", "Hebrew_Letter", "Numeric", "Katakana"}             \* WB13b

\* the pairs <<i, j>> of scalars X, Y of a well-formed text with nothing but
\* Extend, Format and ZWJ between them that match a keep rule
keptPairs(s) ==
    LET cls == classesOf(s)
    IN {p \in {<<i, nearestAfter(cls, i)>> : i \in 1..(Len(cls) - 1)} :
            /\ p[2] <= Len(cls)
            /\ ~uaxIgnored(cls[p[1]])
            /\ keepPair(cls, p[1], p[2])}

\* C14: once the walk of a well-formed text has ended, for scalars X and Y
\* with only Extend, Format and ZWJ scalars between them that match one of
\* WB5..WB13b (lookbehind and lookahead being the nearest scalars that are
\* not ignored), no position after the start of X up to and including the
\* start of Y was yielded.
C14_KeepThroughIgnored ==
    (walkDone /\ WellFormed(text)) =>
        \A p \in keptPairs(text) :
            \A m \in (p[1] + 1)..p[2] : startOf(text, m) \notin yieldedSet

\* a finished walk over a text with a pair kept by a rule with lookahead and
\* a pair kept by a rule with lookbehind, each with an ignored scalar inside
C14_Witness ==
    /\ walkDone
    /\ WellFormed(text)
    /\ \E p \in keptPairs(text) :
        /\ p[2] > p[1] + 1
        /\ classAt(text, p[2]) \in {"MidLetter", "MidNum", "MidNumLet", "Single_Quote", "Double_Quote"}
    /\ \E p \in keptPairs(text) :
        /\ p[2] > p[1] + 1
        /\ classAt(text, p[1]) \in {"MidLetter", "MidNum", "MidNumLet", "Single_Quote", "Double_Quote"}

-----------------------------------------------------------------------------
(* The walk as a function of the text: what Array.from(findBoundaries(s))
   holds when no assertion throws.  Every stage takes the window by value:
   the window it is given is bound once (w \in {w0}) before it is read. *)

\* the one element of a set of one element
the(S) == CHOOSE r \in S : TRUE

\* findBoundaries.ts:101-111: the window shift
shifted(s, w0) ==
    the({ [w EXCEPT !.rightPos = w.lookaheadPos,
                    !.lookaheadPos = positionAfter(s, w.lookaheadPos),
                    !.lookbehind = w.left,
                    !.left = w.right,
                    !.right = w.lookahead,
                    !.lookahead = wordbreakPropertyAt(s, positionAfter(s, w.lookaheadPos))]
          : w \in {w0} })

\* findBoundaries.ts:149-164: the two-scalar advance
hacked(s, w0) ==
    the({ IF hackApplies(w.left, w.right, w.lookahead)
          THEN [w EXCEPT !.rightPos = positionAfter(s, w.lookaheadPos),
                         !.lookaheadPos = positionAfter(s, positionAfter(s, w.lookaheadPos)),
                         !.left = w.lookahead,
                         !.right = wordbreakPropertyAt(s, positionAfter(s, w.lookaheadPos)),
                         !.lookahead = wordbreakPropertyAt(s,
                                          positionAfter(s, positionAfter(s, w.lookaheadPos)))]
          ELSE w
          : w \in {w0} })

\* findBoundaries.ts:177-187: the WB4 loop over right
RECURSIVE sweptRight(_, _)
sweptRight(s, w0) ==
    the({ IF isIgnored(w.right)
          THEN sweptRight(s, [w EXCEPT !.rightPos = w.lookaheadPos,
                                       !.lookaheadPos = positionAfter(s, w.lookaheadPos),
                                       !.right = w.lookahead,
                                       !.lookahead = wordbreakPropertyAt(s,
                                                        positionAfter(s, w.lookaheadPos))])
          ELSE w
          : w \in {w0} })

\* findBoundaries.ts:198-208: the WB4 loop over lookahead
RECURSIVE sweptLookahead(_, _)
sweptLookahead(s, w0) ==
    the({ IF isIgnored(w.lookahead)
          THEN sweptLookahead(s, [w EXCEPT !.lookaheadPos = positionAfter(s, w.lookaheadPos),
                                           !.lookahead = wordbreakPropertyAt(s,
                                                            positionAfter(s, w.lookaheadPos))])
          ELSE w
          : w \in {w0} })

\* `yield rightPos`
yielding(w0) == the({ [w EXCEPT !.out = Append(w.out, w.rightPos)] : w \in {w0} })

\* findBoundaries.ts:210-307: WB5..WB13b, WB15 and WB16, WB999
ruled(w0) ==
    the({ IF keepRule(w.lookbehind, w.left, w.right, w.lookahead) # "none" THEN w
          ELSE IF w.right = Regional_Indicator
          THEN IF (w.nConsecutiveRegionalIndicators + 1) % 2 = 1
               THEN [w EXCEPT !.nConsecutiveRegionalIndicators =
                                w.nConsecutiveRegionalIndicators + 1]
               ELSE yielding([w EXCEPT !.nConsecutiveRegionalIndicators =
                                         w.nConsecutiveRegionalIndicators + 1])
          ELSE yielding([w EXCEPT !.nConsecutiveRegionalIndicators = 0])
          : w \in {w0} })

\* `while (rightPos < text.length)` at the foot of the loop, and `return`
again(s, w0) == the({ [w EXCEPT !.more = w.rightPos < Len(s)] : w \in {w0} })
return(w0) == the({ [w EXCEPT !.more = FALSE] : w \in {w0} })

\* findBoundaries.ts:167-308: the turn from WB3c on, the window already past
\* the two-scalar advance
lateTurn(s, w0) ==
    the({ IF \/ w.left = ZWJ /\ isExtendedPictographicAt(s, w.rightPos)
             \/ WB3d(w.left, w.right)
          THEN again(s, w)
          ELSE the({ IF w3.right = eot THEN return(yielding(w3))
                     ELSE again(s, ruled(sweptLookahead(s, w3)))
                     : w3 \in {sweptRight(s, w)} })
          : w \in {w0} })

\* findBoundaries.ts:100-308: one turn of the do-while loop, from the top of
\* its body to its foot or to the return of the generator
turn(s, w0) ==
    the({ LET rule == earlyRule(w.left, w.right)
          IN IF rule = "WB2" THEN return(yielding(w))
             ELSE IF rule = "WB3" THEN again(s, w)
             ELSE IF rule # "none" THEN again(s, yielding(w))
             ELSE lateTurn(s, hacked(s, w))
          : w \in {shifted(s, w0)} })

\* findBoundaries.ts:100-308: the do-while loop to the return of the generator
RECURSIVE loopFrom(_, _)
loopFrom(s, w0) ==
    the({ IF w.more THEN loopFrom(s, w) ELSE w.out : w \in {turn(s, w0)} })

\* findBoundaries.ts:91-99: the window before the first turn
initialWindow(s) ==
    [rightPos |-> Undefined, lookaheadPos |-> 0, lookbehind |-> Undefined,
     left |-> sot, right |-> sot, lookahead |-> wordbreakPropertyAt(s, 0),
     nConsecutiveRegionalIndicators |-> 0, out |-> <<>>, more |-> TRUE]

\* findBoundaries.ts:66-309: the boundaries of s, in the order they are yielded
findBoundaries(s) ==
    IF Len(s) = 0 THEN <<>> ELSE loopFrom(s, initialWindow(s))

\* the walk of the state machine and the function agree
WalkIsFunction == (walkDone /\ WellFormed(text)) => yielded = findBoundaries(text)

\* the positions the walk yielded from the i-th to the j-th, counted from the
\* i-th
shiftedBoundaries(i, j) == [k \in 1..(j - i + 1) |-> yielded[i + k - 1] - yielded[i]]

\* the text of the spans from the i-th to the j-th, joined
runText(i, j) == concatTexts(SubSeq(spansOfYielded, i, j))

\* C15: once the walk of a well-formed text has ended, for every run i..j of
\* adjacent spans, findBoundaries of the joined text of the run yields the
\* boundaries of the run counted from the start of the run; a single span
\* gives 0 and its length.
C15_StableUnderResplitting ==
    (walkDone /\ WellFormed(text)) =>
        \A i \in 1..Len(spansOfYielded) : \A j \in i..Len(spansOfYielded) :
            findBoundaries(runText(i, j)) = shiftedBoundaries(i, j + 1)

\* the value of the WORD_BREAK_PROPERTY entry with the greatest start that is
\* not above the code point
entryValue(codePoint) == WORD_BREAK_PROPERTY[rangeOf(codePoint)][2]

\* C16: for every scalar value of a well-formed text, the property resolver
\* returns the Word_Break value of the WORD_BREAK_PROPERTY entry with the
\* greatest start that is not above its code point.
C16_ResolverMatchesEntries ==
    WellFormed(text) =>
        \A k \in 1..scalarCount(text) :
            property(arrayFrom(text)[k]) = entryValue(scalarsOf(text)[k])

\* the start of the last entry of WORD_BREAK_PROPERTY: the code points from
\* here on are above every assigned range
lastStart == WORD_BREAK_PROPERTY[Len(WORD_BREAK_PROPERTY)][1]

\* the values of the WordBreakProperty enum
enumValues == 0..(Len(categories) - 1)

\* C17: for every scalar value of a well-formed text, code points of
\* 0xE0000..0xE01FF and code points above the last assigned range included,
\* the lookup reads a word inside the table and returns a member of the
\* WordBreakProperty enum, which is Other from the start of the last entry on.
C17_LookupTotal ==
    WellFormed(text) =>
        LET chars == arrayFrom(text) IN
        \A k \in 1..Len(chars) :
            LET codePoint == codePointAt0(chars[k])
                value == property(chars[k])
            IN /\ wordIndexOf(codePoint) \in 0..(lutLength - 1)
               /\ value \in enumValues
               /\ codePoint >= lastStart => value = Other

\* a finished walk over a text with U+10FFFF and a variation selector of
\* U+E0100..U+E01EF
C17_Witness ==
    /\ walkDone
    /\ WellFormed(text)
    /\ \E k \in 1..scalarCount(text) : scalarsOf(text)[k] = 1114111
    /\ \E k \in 1..scalarCount(text) :
          scalarsOf(text)[k] >= 917504 /\ scalarsOf(text)[k] <= 918015

\* C18: for every sequence of code units, unpaired surrogates included, no
\* assertion fails, rightPos is text.length whenever right is eot, every
\* yielded position lies in 0..text.length, and once the walk of a non-empty
\* text has ended the last yielded position is text.length.
C18_IllFormedWalkCompletes ==
    /\ pc # "thrown"
    /\ (Len(text) > 0 /\ pc # "start" /\ right = eot) => rightPos = Len(text)
    /\ \A k \in 1..Len(yielded) : yielded[k] \in 0..Len(text)
    /\ (walkDone /\ Len(text) > 0) =>
          (Len(yielded) > 0 /\ yielded[Len(yielded)] = Len(text))

\* C19: for every sequence of code units, unpaired surrogates included, no
\* yielded position lies between a high surrogate and the low surrogate that
\* comes right after it.
C19_NeverMidSurrogate ==
    \A k \in 1..Len(yielded) : ~midSurrogate(text, yielded[k])

\* C20: on the empty string findBoundaries yields no position, findSpans
\* yields no span and split returns an empty array.
C20_EmptyProducesNothing ==
    Len(text) = 0 =>
        /\ yielded = <<>>
        /\ spanList = <<>>
        /\ spans = <<>>
        /\ pc \in {"start", "done"}
        /\ findBoundaries(text) = <<>>

\* the walk of the empty string has ended and findSpans has nothing to yield
C20_Witness == Len(text) = 0 /\ spansDone

-----------------------------------------------------------------------------
(* Termination *)

\* The generator is pulled until it returns (for...of in split(), Array.from
\* in findSpans()), so a step that can be taken is taken in the end.
FairSpec == Spec /\ WF_vars(Next)

\* the walk has ended: the generator has returned or an assertion has thrown
walkEnded == pc \in {"done", "thrown"}

\* a turn of the main loop after the first one leaves rightPos greater than
\* it was (the first turn gives rightPos its first value)
loopIncreasesRightPos ==
    (pc = "loop" /\ right # sot /\ pc' # "thrown") => rightPos' > rightPos

\* the generator returns only right after it has yielded text.length, or at
\* once on the empty string
returnsAfterLength ==
    (pc # "done" /\ pc' = "done") =>
        IF Len(text) = 0 THEN yielded' = <<>>
        ELSE yielded' = Append(yielded, Len(text))

\* C21: the walk of every text ends (the main loop and both WB4 loops stop),
\* no assertion throws, the generator returns only right after yielding
\* text.length, every turn of the main loop increases rightPos, and at most
\* text.length + 1 positions are yielded.
C21_WalkTerminates ==
    /\ <>walkEnded
    /\ [](pc # "thrown")
    /\ [][loopIncreasesRightPos]_vars
    /\ [][returnsAfterLength]_vars
    /\ [](Len(yielded) <= Len(text) + 1)

-----------------------------------------------------------------------------
(* Two generators alive together.  JavaScript runs one generator at a time;
   the caller decides which one it resumes next. *)

\* a, space, COMBINING GRAVE ACCENT
PairAlphabet == {97, 32, 768}

PairTexts == {encode(s) : s \in ScalarStrings(PairAlphabet, MaxPairLen)}

\* findBoundaries(text) and findBoundaries(second.text) have been called;
\* neither generator has been resumed yet
InitPair ==
    /\ text \in PairTexts
    /\ pc = "start"
    /\ rightPos = Undefined
    /\ lookaheadPos = Undefined
    /\ lookbehind = Undefined
    /\ left = Undefined
    /\ right = Undefined
    /\ lookahead = Undefined
    /\ nConsecutiveRegionalIndicators = Undefined
    /\ yielded = <<>>
    /\ prev = <<>>
    /\ spans = <<>>
    /\ spanIndex = 0
    /\ spanList = <<>>
    /\ \E t \in PairTexts : second = [state |-> "start", text |-> t, w |-> initialWindow(t)]
    /\ build = noBuild

\* findBoundaries.ts:66-99 in the second generator: the early return on the
\* empty string, else its own window
SecondBegin ==
    /\ second.state = "start"
    /\ second' = [second EXCEPT !.state = IF Len(second.text) = 0 THEN "returned" ELSE "running"]
    /\ UNCHANGED <<text, build, pc, walk, yielded, prev, spans, spanIndex, spanList>>

\* a second generator that reads the window slot `right` of the first one
SecondTurn_SharedRight ==
    /\ second.state = "running"
    /\ \E w \in {turn(second.text,
                      [second.w EXCEPT !.right = IF pc = "start" THEN @ ELSE right])} :
          second' = [second EXCEPT !.w = w,
                                   !.state = IF w.more THEN "running" ELSE "returned"]
    /\ UNCHANGED <<text, build, pc, walk, yielded, prev, spans, spanIndex, spanList>>

\* findBoundaries.ts:100-308 in the second generator: one turn of its loop,
\* over its own variables
SecondTurn ==
    /\ second.state = "running"
    /\ \E w \in {turn(second.text, second.w)} :
          second' = [second EXCEPT !.w = w,
                                   !.state = IF w.more THEN "running" ELSE "returned"]
    /\ UNCHANGED <<text, build, pc, walk, yielded, prev, spans, spanIndex, spanList>>

NextPair ==
    \/ Next
    \/ SecondBegin
    \/ SecondTurn

TwoWalks == InitPair /\ [][NextPair]_vars

\* the sequence p is the beginning of the sequence q
isPrefix(p, q) == Len(p) <= Len(q) /\ SubSeq(q, 1, Len(p)) = p

-----------------------------------------------------------------------------
(* C23: the first Regional_Indicator of a run *)

\* the scalars of a well-formed text that are a Regional_Indicator at a
\* position p > 0 and the first of their run: the nearest scalar before them
\* that is not Extend, Format or ZWJ is not a Regional_Indicator
flagStarts(s) ==
    LET cls == classesOf(s)
    IN {i \in 2..Len(cls) :
            /\ cls[i] = "Regional_Indicator"
            /\ classIn(cls, nearestBefore(cls, i)) # "Regional_Indicator"}

\* C23 (WB999 before a flag): once the walk of a well-formed text has ended,
\* the position of every Regional_Indicator scalar that is not the first
\* scalar of the text and is the first of its run was yielded, whatever the
\* class of the scalar before it.
C23_BreakBeforeFlag ==
    (walkDone /\ WellFormed(text)) =>
        \A i \in flagStarts(text) : startOf(text, i) \in yieldedSet

\* the same for the flags that do not follow a letter, a digit or a
\* connector: after Other, WSegSpace, newlines and at the start of the text
C23_BreakBeforeFlagAfterNonWord ==
    (walkDone /\ WellFormed(text)) =>
        \A i \in flagStarts(text) :
            LET cls == classesOf(text)
                before == classIn(cls, nearestBefore(cls, i))
            IN before \notin {"ALetter", "Hebrew_Letter", "Numeric", "Katakana",
                              "ExtendNumLet"}
                  => startOf(text, i) \in yieldedSet

-----------------------------------------------------------------------------
(* C24: the Regional_Indicator counter *)

\* the class in the Unicode data of the scalar of a well-formed text that
\* starts at the code unit position pos, "eot" at and after text.length
classAtPos(s, pos) ==
    IF pos >= Len(s) THEN "eot" ELSE classOf(codePointAt0(SubSeq(s, pos + 1, Len(s))))

\* a step of the model that ends a turn of the do-while loop: a `continue`,
\* the foot of the loop, `break` or `return`
turnEnds == pc \notin {"start", "done", "thrown"} /\ pc' \in {"loop", "done"}

\* C24: in a well-formed text, a turn of the loop that ends with right on a
\* scalar that is not a Regional_Indicator leaves the counter at zero, and a
\* turn that ends with right on a Regional_Indicator has added one to it,
\* whatever rule ends the turn.
C24_CounterDiscipline ==
    [][(WellFormed(text) /\ turnEnds) =>
          IF classAtPos(text, rightPos') = "Regional_Indicator"
          THEN nConsecutiveRegionalIndicators' = nConsecutiveRegionalIndicators + 1
          ELSE nConsecutiveRegionalIndicators' = 0]_vars

\* the same with the value the variable `right` holds in place of the class
\* of the scalar it stands for
C24_CounterFollowsRightSlot ==
    [][turnEnds =>
          IF right' = Regional_Indicator
          THEN nConsecutiveRegionalIndicators' = nConsecutiveRegionalIndicators + 1
          ELSE nConsecutiveRegionalIndicators' = 0]_vars

\* the variable `right` never holds Regional_Indicator
C24_RightNeverRegionalIndicator == right # Regional_Indicator

-----------------------------------------------------------------------------
(* C25: Other, Extend or Format, ZWJ, Extended_Pictographic *)

\* the scalars of a well-formed text at which the pattern Other, (Extend or
\* Format), ZWJ, Extended_Pictographic starts
zwjSequenceStarts(s) ==
    LET cps == scalarsOf(s)
    IN {i \in 1..(Len(cps) - 3) :
            /\ classOf(cps[i]) = "Other"
            /\ classOf(cps[i + 1]) \in {"Extend", "Format"}
            /\ classOf(cps[i + 2]) = "ZWJ"
            /\ cps[i + 3] \in extendedPictographic}

\* C25: in a well-formed text, no position strictly inside the four scalars of
\* the pattern Other, (Extend or Format), ZWJ, Extended_Pictographic is
\* yielded, wherever the pattern is in the text.
C25_ZwjSequenceIsOneUnit ==
    WellFormed(text) =>
        \A i \in zwjSequenceStarts(text) :
            \A k \in (i + 1)..(i + 3) : startOf(text, k) \notin yieldedSet

\* the same for the patterns at the start of the text and right after a CR,
\* LF or Newline
C25_ZwjSequenceAfterBreak ==
    WellFormed(text) =>
        \A i \in zwjSequenceStarts(text) :
            (i = 1 \/ uaxNewline(classAt(text, i - 1)))
                => \A k \in (i + 1)..(i + 3) : startOf(text, k) \notin yieldedSet

-----------------------------------------------------------------------------
(* C26: WB3d and the ignored scalars *)

\* the scalars of a well-formed text that are a WSegSpace with one or more
\* Extend, Format or ZWJ scalars, and nothing else, between them and the
\* WSegSpace before
spacesAfterIgnored(s) ==
    LET cls == classesOf(s)
    IN {j \in 3..Len(cls) :
            /\ cls[j] = "WSegSpace"
            /\ uaxIgnored(cls[j - 1])
            /\ classIn(cls, nearestBefore(cls, j)) = "WSegSpace"}

\* C26 (WB3d before WB4): once the walk of a well-formed text has ended, the
\* position of every WSegSpace that follows a WSegSpace and one or more
\* Extend, Format or ZWJ scalars was yielded, wherever the sequence is in the
\* text.
C26_SpacesApartAreSplit ==
    (walkDone /\ WellFormed(text)) =>
        \A j \in spacesAfterIgnored(text) : startOf(text, j) \in yieldedSet

\* the same for the sequences whose first WSegSpace starts the text or comes
\* right after a CR, LF or Newline
C26_SpacesApartAfterBreak ==
    (walkDone /\ WellFormed(text)) =>
        \A j \in spacesAfterIgnored(text) :
            LET cls == classesOf(text)
                i == nearestBefore(cls, j)
            IN (i = 1 \/ uaxNewline(cls[i - 1])) => startOf(text, j) \in yieldedSet

-----------------------------------------------------------------------------
(* C27: a text with a LF in it and the texts on both sides of the LF *)

\* the members of a sequence
membersOf(seq) == {seq[k] : k \in 1..Len(seq)}

\* the code units p (counted from 1) of a well-formed text that are a LF with
\* a text x before it that does not end in CR, LF or Newline and a text y
\* after it that does not start with LF
lineBreaks(s) ==
    {p \in 1..Len(s) :
        /\ s[p] = 10
        /\ p > 1 => ~uaxNewline(classOf(s[p - 1]))
        /\ p < Len(s) => s[p + 1] # 10}

\* what the claim composes for the LF at code unit p of s: the boundaries of
\* x, the position |x| + 1 and the boundaries of y moved by |x| + 1
composedAt(s, p) ==
    membersOf(findBoundaries(SubSeq(s, 1, p - 1)))
        \cup {p}
        \cup {b + p : b \in membersOf(findBoundaries(SubSeq(s, p + 1, Len(s))))}

\* C27: once the walk of a well-formed text x + LF + y has ended, where x is
\* not empty and does not end in CR, LF or Newline and y does not start with
\* LF, the positions yielded are those of x alone, |x| + 1, and those of y
\* alone moved by |x| + 1.
C27_ComposesAcrossLineBreak ==
    (walkDone /\ WellFormed(text)) =>
        \A p \in lineBreaks(text) : p > 1 => yieldedSet = composedAt(text, p)

\* with the empty x, the walk of LF + y yields 0 as well
C27_ComposesAfterEmpty ==
    (walkDone /\ WellFormed(text) /\ 1 \in lineBreaks(text)) =>
        yieldedSet = {0} \cup composedAt(text, 1)

\* no Extend, Format or ZWJ scalar of the text comes right after a CR, LF or
\* Newline scalar
noIgnoredAfterNewline(s) ==
    LET cls == classesOf(s)
    IN \A i \in 2..Len(cls) : ~(uaxIgnored(cls[i]) /\ uaxNewline(cls[i - 1]))

\* the same where no Extend, Format or ZWJ scalar follows a CR, LF or Newline
\* in the text
C27_ComposesWithoutIgnoredAfterNewline ==
    (walkDone /\ WellFormed(text) /\ noIgnoredAfterNewline(text)) =>
        \A p \in lineBreaks(text) : p > 1 => yieldedSet = composedAt(text, p)

-----------------------------------------------------------------------------
(* C28: what createLookupTable packs and what lookupProperty reads back *)

\* C28: for every scalar value c of a well-formed text, lookupProperty reads
\* from field c & 7 of word c >> 3 of DENSE_LOOKUP the value v that
\* WORD_BREAK_PROPERTY gives c, the field in bits 28..31 included.
C28_PackingLossless ==
    WellFormed(text) =>
        \A c \in membersOf(scalarsOf(text)) : lookupProperty(c) = entryValue(c)

\* the same for the values that fit in four bits
C28_PackingLosslessBelow16 ==
    WellFormed(text) =>
        \A c \in membersOf(scalarsOf(text)) :
            entryValue(c) <= 15 => lookupProperty(c) = entryValue(c)

\* a text with a scalar in the field of bits 28..31 whose value has the top
\* bit of the field set (LOW LINE, ExtendNumLet), read back as it was stored
C28_TopFieldRead ==
    \E c \in membersOf(scalarsOf(text)) :
        /\ c % ENTRIES_PER_WORD = ENTRIES_PER_WORD - 1
        /\ entryValue(c) >= 8
        /\ DENSE_LOOKUP[wordIndexOf(c)] < 0
        /\ lookupProperty(c) = entryValue(c)

-----------------------------------------------------------------------------
(* C29: the window and the positions *)

\* the window has been shifted at least once: rules are evaluated on it
windowSet == pc \in {"loop", "emoji", "sweepRight", "sweepLookahead", "done"}
                /\ rightPos # Undefined

\* right and lookahead are the properties of the scalars at rightPos and
\* lookaheadPos, and rightPos is before lookaheadPos unless both are at the
\* end of the text
windowConsistent ==
    /\ right = wordbreakPropertyAt(text, rightPos)
    /\ rightPos >= Len(text) => right = eot
    /\ lookahead = wordbreakPropertyAt(text, lookaheadPos)
    /\ \/ rightPos < lookaheadPos
       \/ rightPos = Len(text) /\ lookaheadPos = Len(text)

\* a yield hands out rightPos
yieldsRightPos == yielded' # yielded => yielded' = Append(yielded, rightPos')

\* C29: whenever a rule is evaluated and whenever a position is yielded,
\* right is the property of the scalar at rightPos (eot from text.length on),
\* lookahead is the property of the scalar at lookaheadPos, rightPos is before
\* lookaheadPos unless both are text.length, and the position yielded is
\* rightPos.
C29_WindowConsistent ==
    /\ [](windowSet => windowConsistent)
    /\ [][yieldsRightPos]_vars

\* the same for the well-formed texts
C29_WindowConsistentWellFormed ==
    /\ []((WellFormed(text) /\ windowSet) => windowConsistent)
    /\ [][WellFormed(text) => yieldsRightPos]_vars

-----------------------------------------------------------------------------
(* C30: the streaming split() and the split() over findSpans() *)

\* index.ts:33-36: Array.from(findSpans(text)).map(span => span.text)
\*                      .filter(isNonSpace), over the spans findSpans() has
\* yielded
splitOfSpans ==
    SelectSeq([k \in 1..Len(spanList) |-> spanText(spanList[k])], isNonSpace)

\* C30: for every text, once split() has returned and findSpans() has yielded
\* its last span, the array of split() is the array of the span texts
\* filtered with isNonSpace: the same elements in the same order.
C30_SplitMatchesSpans == spansDone => spans = splitOfSpans

\* both have ended on a text of at least three spans whose first and last
\* spans are kept and one span in between is dropped
C30_Witness ==
    /\ spansDone
    /\ Len(spanList) >= 3
    /\ Len(spans) >= 2
    /\ Len(spans) < Len(spanList)
    /\ spans[1] = spanText(spanList[1])
    /\ spans[Len(spans)] = spanText(spanList[Len(spanList)])

-----------------------------------------------------------------------------
(* C31: what the WB4 loops leave alone *)

\* a step of the WB4 loop over right (findBoundaries.ts:177-187)
sweepsRight == pc = "sweepRight" /\ pc' = "sweepRight"

\* a step of the WB4 loop over lookahead (findBoundaries.ts:198-208)
sweepsLookahead == pc = "sweepLookahead" /\ pc' = "sweepLookahead"

\* C31: a step of the WB4 loop over right leaves lookbehind, left and the
\* Regional_Indicator counter as they were; a step of the WB4 loop over
\* lookahead leaves lookbehind, left, right, rightPos and the counter as they
\* were.
C31_SweepsFrame ==
    /\ [][sweepsRight =>
            UNCHANGED <<lookbehind, left, nConsecutiveRegionalIndicators>>]_vars
    /\ [][sweepsLookahead =>
            UNCHANGED <<lookbehind, left, right, rightPos,
                        nConsecutiveRegionalIndicators>>]_vars

\* both loops have moved the window in one turn: right went over a U+0300
\* next to a letter and lookahead went over another one
C31_Witness ==
    /\ pc = "sweepLookahead"
    /\ left = ALetter
    /\ rightPos >= 2
    /\ text[rightPos] = 768
    /\ lookaheadPos >= rightPos + 2
    /\ text[lookaheadPos] = 768
    /\ ~isIgnored(lookahead)

-----------------------------------------------------------------------------
(* The generator script, libexec/compile-word-break.js: makeDense and
   ensureDense.  A range is [start, end, property], both ends included. *)

\* compile-word-break.js:19
MAX_CODE_POINT == 1114111

\* the starts and ends of the ranges of the model: the first three code
\* points and the last two
RangePoints == {0, 1, 2, MAX_CODE_POINT - 1, MAX_CODE_POINT}

RangeProperties == {"Other", "ALetter"}

PropertyRanges ==
    {r \in [start : RangePoints, end : RangePoints, property : RangeProperties] :
        r.start <= r.end}

\* the lists of ranges given to makeDense and to ensureDense: in any order,
\* overlapping or not
RangeLists == UNION {[1..k -> PropertyRanges] : k \in 0..MaxRanges}

\* compile-word-break.js:313-335: the loop of fillInGaps from the i-th range
\* on, nextUnaccountedCodepoint being next, and the last range after it
RECURSIVE fillFrom(_, _, _)
fillFrom(ranges, i, next) ==
    IF i > Len(ranges)
    THEN IF next < MAX_CODE_POINT
         THEN <<[start |-> next, end |-> MAX_CODE_POINT, property |-> "Other"]>>
         ELSE <<>>
    ELSE (IF ranges[i].start > next
          THEN <<[start |-> next, end |-> ranges[i].start - 1, property |-> "Other"]>>
          ELSE <<>>)
         \o <<ranges[i]>> \o fillFrom(ranges, i + 1, ranges[i].end + 1)

\* compile-word-break.js:307-338
fillInGaps(ranges) == fillFrom(ranges, 1, 0)

\* compile-word-break.js:295-302: the loop of joinSameAdjacentProperties from
\* the i-th range on
RECURSIVE joinFrom(_, _, _)
joinFrom(ranges, i, conjoined0) ==
    the({ IF i > Len(ranges) THEN conjoinedRanges
          ELSE IF ranges[i].property = conjoinedRanges[Len(conjoinedRanges)].property
          THEN joinFrom(ranges, i + 1,
                        [conjoinedRanges EXCEPT ![Len(conjoinedRanges)].end = ranges[i].end])
          ELSE joinFrom(ranges, i + 1, Append(conjoinedRanges, ranges[i]))
          : conjoinedRanges \in {conjoined0} })

\* compile-word-break.js:289-305, for the lists fillInGaps returns, which are
\* never empty
joinSameAdjacentProperties(ranges) ==
    IF Len(ranges) = 0 THEN <<>> ELSE joinFrom(ranges, 2, <<ranges[1]>>)

\* compile-word-break.js:265-267
makeDense(ranges) ==
    the({ joinSameAdjacentProperties(filled) : filled \in {fillInGaps(ranges)} })

\* compile-word-break.js:272-285: the loop of ensureDense from the i-th range
\* on; FALSE when it throws
RECURSIVE ensureFrom(_, _, _, _)
ensureFrom(ranges, i, lastEnd, lastProperty) ==
    IF i > Len(ranges) THEN TRUE
    ELSE IF lastEnd + 1 # ranges[i].start THEN FALSE
    ELSE IF lastProperty = ranges[i].property THEN FALSE
    ELSE ensureFrom(ranges, i + 1, ranges[i].end, ranges[i].property)

\* compile-word-break.js:269-286: TRUE when ensureDense returns, FALSE when it
\* throws
ensureDense(ranges) == ensureFrom(ranges, 1, -1, "sot")

\* the script holds a list of ranges; the walk is not running
InitBuild ==
    /\ text = <<>>
    /\ pc = "start"
    /\ rightPos = Undefined
    /\ lookaheadPos = Undefined
    /\ lookbehind = Undefined
    /\ left = Undefined
    /\ right = Undefined
    /\ lookahead = Undefined
    /\ nConsecutiveRegionalIndicators = Undefined
    /\ yielded = <<>>
    /\ prev = <<>>
    /\ spans = <<>>
    /\ spanIndex = 0
    /\ spanList = <<>>
    /\ second = noSecond
    /\ \E l \in RangeLists : build = [stage |-> "read", input |-> l, ranges |-> l]

\* compile-word-break.js:54: ranges = makeDense(ranges)
MakeDense ==
    /\ build.stage = "read"
    /\ \E dense \in {makeDense(build.ranges)} :
          build' = [build EXCEPT !.stage = "dense", !.ranges = dense]
    /\ UNCHANGED <<text, second, pc, walk, yielded, prev, spans, spanIndex, spanList>>

\* compile-word-break.js:55: ensureDense(ranges), on the table makeDense
\* returned or on the list as it was read; it returns or throws
EnsureDense ==
    /\ build.stage \in {"read", "dense"}
    /\ \E accepts \in {ensureDense(build.ranges)} :
          build' = [build EXCEPT !.stage = IF accepts THEN "accepted" ELSE "thrown"]
    /\ UNCHANGED <<text, second, pc, walk, yielded, prev, spans, spanIndex, spanList>>

NextBuild ==
    \/ MakeDense
    \/ EnsureDense

Generator == InitBuild /\ [][NextBuild]_vars

-----------------------------------------------------------------------------
(* C32: dense tables *)

\* sorted by start, pairwise non-overlapping, inside 0..0x10FFFF
validRanges(l) ==
    /\ \A i \in 1..Len(l) : 0 <= l[i].start /\ l[i].start <= l[i].end
                            /\ l[i].end <= MAX_CODE_POINT
    /\ \A i \in 1..(Len(l) - 1) : l[i].end < l[i + 1].start

\* begins at 0, each range starts one past the end of the one before, no two
\* adjacent ranges have the same property
denseFromZero(t) ==
    /\ Len(t) > 0
    /\ t[1].start = 0
    /\ \A i \in 1..(Len(t) - 1) :
          /\ t[i + 1].start = t[i].end + 1
          /\ t[i + 1].property # t[i].property

\* and the last range extends to 0x10FFFF
isDense(t) == denseFromZero(t) /\ t[Len(t)].end = MAX_CODE_POINT

\* makeDense has returned
made == build.stage = "dense"

\* ensureDense has returned or thrown
ensured == build.stage \in {"accepted", "thrown"}

\* C32: for every list of ranges that is sorted by start, non-overlapping and
\* inside 0..0x10FFFF, the table makeDense returns begins at 0, has no gaps,
\* has no two adjacent ranges with the same property and ends at 0x10FFFF;
\* ensureDense returns for the tables with these properties and throws for
\* all others.
C32_DenseTables ==
    /\ (made /\ validRanges(build.input)) => isDense(build.ranges)
    /\ ensured => (build.stage = "accepted" <=> isDense(build.ranges))

\* makeDense alone, for the lists that do not end at 0x10FFFE
C32_MakeDenseUnlessOneLeft ==
    (/\ made
     /\ validRanges(build.input)
     /\ Len(build.input) > 0 => build.input[Len(build.input)].end # MAX_CODE_POINT - 1)
        => isDense(build.ranges)

\* what ensureDense tests: the empty table, or a table from 0 on without gaps
\* and without equal neighbours, wherever it ends
C32_EnsureDenseTests ==
    ensured =>
        (build.stage = "accepted"
            <=> (Len(build.ranges) = 0 \/ denseFromZero(build.ranges)))

====
